---- MODULE Spec2Model ----
(***************************************************************************)
(* Model of docs/conf.py of international-k-matrix-day: the Sphinx         *)
(* configuration module, whose only executable logic is the static-asset   *)
(* publisher copy_julia_html_page() called once while the module loads.    *)
(*                                                                         *)
(* The filesystem is modelled at the paths the code touches.  A path holds *)
(* a regular file or nothing; _static is a directory or missing.  A file   *)
(* has contents and a permission mode, because shutil.copy copies both.    *)
(***************************************************************************)
EXTENDS Naturals, Sequences, FiniteSets

\* ---------------------------------------------------------------- bounds
MaxBuilds == 2      \* successive loads of the configuration that are explored
MaxExt == 2         \* steps of the external producer of the artifact (SpecEnv)

\* -------------------------------------------------------------- constants
html_page == "K-matrix.html"
static_path == "_static"
DestPath == "_static/K-matrix.html"      \* str(static_path / html_page)

Contents == {"a", "b"}                   \* file contents the artifact may have
Truncated == ""                          \* contents of a file opened "wb" and not written
Modes == {"rw", "ro"}                    \* owner-writable, read-only

Absent == [kind |-> "absent", content |-> "", mode |-> "-"]
File(c, m) == [kind |-> "file", content |-> c, mode |-> m]
Entries == {Absent} \cup {File(c, m) : c \in Contents, m \in Modes}

\* _static: missing, present without write permission, present and writable,
\* or present on a device on which writes fail (disk full, I/O error)
DirStates == {"missing", "readonly", "writable", "faulty"}

Constants == {"BRANCH", "ORGANIZATION", "REPO_NAME"}
Settings == {"codeautolink_concat_default", "html_static_path", "project"}

VARIABLES
    fs,                \* the filesystem: [src, dir, dst, favicon]
    privileged,        \* the build runs as a user that bypasses permission checks
    pc,                \* position of the build process in conf.py
    defined,           \* names bound in the configuration namespace
    html_static_path,  \* value of the setting of that name, <<>> while unbound
    result,            \* value returned by copy_julia_html_page()
    outcome,           \* "none", "returned" or "raised" for the current invocation
    found,             \* what html_page.exists() answered: "none", "present", "absent"
    atCall,            \* the filesystem when the current invocation was entered
    calls,             \* invocations of the publisher in the current build
    copies,            \* calls of shutil.copy in the current build
    wrote,             \* shutil.copy completed a write in the current invocation
    generated,         \* documentation generation has started in the current build
    builds,            \* number of the current build
    prev,              \* how the previous build's invocation ended
    extSteps           \* steps taken by the external producer

vars == <<fs, privileged, pc, defined, html_static_path, result, outcome, found,
          atCall, calls, copies, wrote, generated, builds, prev, extSteps>>

\* ----------------------------------------------------- library functions

\* Path.exists()
exists(e) == e.kind # "absent"

\* open(dst, "wb") inside shutil.copyfile: an existing file needs write
\* permission on the file, a new one write permission on the directory
CanOpenForWrite(f, priv) ==
    /\ f.dir # "missing"
    /\ IF exists(f.dst)
         THEN priv \/ f.dst.mode = "rw"
         ELSE priv \/ f.dir \in {"writable", "faulty"}


\* shutil.copy(src, dst) with dst = static_path / html_page.
\* copyfile opens the source for reading, then the destination for writing
\* (which truncates it), writes the data; copymode then gives the destination
\* the source's permission bits.  The answer is whether an exception was
\* raised and the filesystem that is left behind.
shutil_copy_contents_lost(f, priv) ==
    IF ~exists(f.src) \/ ~CanOpenForWrite(f, priv)
      THEN [raised |-> TRUE, fs |-> f]
      ELSE [raised |-> FALSE,
            fs |-> [f EXCEPT !.dst = File(Truncated, f.src.mode)]]

shutil_copy_makedirs(f, priv) ==
    IF ~exists(f.src)
      THEN [raised |-> TRUE, fs |-> f]
      ELSE [raised |-> FALSE,
            fs |-> [f EXCEPT !.dir = IF @ = "missing" THEN "writable" ELSE @,
                             !.dst = File(f.src.content, f.src.mode)]]

shutil_copy_move(f, priv) ==
    IF ~exists(f.src) \/ ~CanOpenForWrite(f, priv)
      THEN [raised |-> TRUE, fs |-> f]
      ELSE [raised |-> FALSE,
            fs |-> [f EXCEPT !.dst = File(f.src.content, f.src.mode),
                             !.src = Absent]]

shutil_copy_ignore_errors(f, priv) ==
    IF ~exists(f.src) \/ ~CanOpenForWrite(f, priv) \/ f.dir = "faulty"
      THEN [raised |-> FALSE, fs |-> f]
      ELSE [raised |-> FALSE,
            fs |-> [f EXCEPT !.dst = File(f.src.content, f.src.mode)]]

shutil_copy(f, priv) ==
    IF ~exists(f.src)
      THEN [raised |-> TRUE, fs |-> f]                \* FileNotFoundError
    ELSE IF ~CanOpenForWrite(f, priv)
      THEN [raised |-> TRUE, fs |-> f]                \* FileNotFoundError, PermissionError
    ELSE IF f.dir = "faulty"
      THEN [raised |-> TRUE,                          \* OSError while writing
            fs |-> [f EXCEPT !.dst = File(Truncated,
                                 IF exists(f.dst) THEN f.dst.mode ELSE "rw")]]
    ELSE [raised |-> FALSE,
          fs |-> [f EXCEPT !.dst = File(f.src.content, f.src.mode)]]

\* ------------------------------------------------------------------ Init

NoPrev == [outcome |-> "none", result |-> <<>>, dst |-> Absent]

\* A build process about to load conf.py, in any filesystem.  Files inside
\* _static exist only when _static does.
Init ==
    /\ privileged \in BOOLEAN
    /\ \E s \in Entries, d \in DirStates, t \in Entries, i \in {Absent, File("a", "rw")} :
          /\ d = "missing" => t = Absent /\ i = Absent
          /\ fs = [src |-> s, dir |-> d, dst |-> t, favicon |-> i]
          /\ atCall = [src |-> s, dir |-> d, dst |-> t, favicon |-> i]
    /\ pc = "line14"
    /\ defined = {}
    /\ html_static_path = <<>>
    /\ result = <<>>
    /\ outcome = "none"
    /\ found = "none"
    /\ calls = 0
    /\ copies = 0
    /\ wrote = FALSE
    /\ generated = FALSE
    /\ builds = 1
    /\ prev = NoPrev
    /\ extSteps = 0

\* --------------------------------------------------------------- actions

\* lines 14-16: BRANCH, ORGANIZATION, REPO_NAME
DefineConstantsSkipCall ==
    /\ pc = "line14"
    /\ defined' = defined \cup Constants
    /\ pc' = "line19"
    /\ UNCHANGED <<fs, privileged, html_static_path, result, outcome, found, atCall,
                   calls, copies, wrote, generated, builds, prev, extSteps>>

DefineConstants ==
    /\ pc = "line14"
    /\ defined' = defined \cup Constants
    /\ pc' = "line17"
    /\ UNCHANGED <<fs, privileged, html_static_path, result, outcome, found, atCall,
                   calls, copies, wrote, generated, builds, prev, extSteps>>

\* line 17: the call enters copy_julia_html_page (lines 5-6)
CallPublisher ==
    /\ pc = "line17"
    /\ calls' = calls + 1
    /\ atCall' = fs
    /\ pc' = "line7"
    /\ UNCHANGED <<fs, privileged, defined, html_static_path, result, outcome, found,
                   copies, wrote, generated, builds, prev, extSteps>>

\* line 7: if html_page.exists()
CheckExistsNoGuard ==
    /\ pc = "line7"
    /\ found' = IF exists(fs.src) THEN "present" ELSE "absent"
    /\ pc' = "line9"
    /\ UNCHANGED <<fs, privileged, defined, html_static_path, result, outcome, atCall,
                   calls, copies, wrote, generated, builds, prev, extSteps>>

CheckExistsStrict ==
    /\ pc = "line7"
    /\ found' = IF exists(fs.src) THEN "present" ELSE "absent"
    /\ pc' = IF exists(fs.src) THEN "line9" ELSE "raised"
    /\ outcome' = IF exists(fs.src) THEN outcome ELSE "raised"
    /\ UNCHANGED <<fs, privileged, defined, html_static_path, result, atCall,
                   calls, copies, wrote, generated, builds, prev, extSteps>>

CheckExists ==
    /\ pc = "line7"
    /\ found' = IF exists(fs.src) THEN "present" ELSE "absent"
    /\ pc' = IF exists(fs.src) THEN "line9" ELSE "line11"
    /\ UNCHANGED <<fs, privileged, defined, html_static_path, result, outcome, atCall,
                   calls, copies, wrote, generated, builds, prev, extSteps>>

\* lines 8-9: shutil.copy(html_page, static_path / html_page)
CopyStep ==
    /\ pc = "line9"
    /\ LET r == shutil_copy(fs, privileged) IN
          /\ fs' = r.fs
          /\ wrote' = ~r.raised
          /\ pc' = IF r.raised THEN "raised" ELSE "line10"
          /\ outcome' = IF r.raised THEN "raised" ELSE outcome
    /\ copies' = copies + 1
    /\ UNCHANGED <<privileged, defined, html_static_path, result, found, atCall,
                   calls, generated, builds, prev, extSteps>>

\* line 10: return [str(static_path / html_page)]; line 17 drops the value
ReturnPath ==
    /\ pc = "line10"
    /\ result' = <<DestPath>>
    /\ outcome' = "returned"
    /\ pc' = "line19"
    /\ UNCHANGED <<fs, privileged, defined, html_static_path, found, atCall,
                   calls, copies, wrote, generated, builds, prev, extSteps>>

\* line 11: return []; line 17 drops the value
ReturnEmpty ==
    /\ pc = "line11"
    /\ result' = <<>>
    /\ outcome' = "returned"
    /\ pc' = "line19"
    /\ UNCHANGED <<fs, privileged, defined, html_static_path, found, atCall,
                   calls, copies, wrote, generated, builds, prev, extSteps>>

\* No try/except around line 9 or line 17: the exception leaves the function
\* and the module, and the load of the configuration fails.
PropagateCaught ==
    /\ pc = "raised"
    /\ pc' = "line19"
    /\ UNCHANGED <<fs, privileged, defined, html_static_path, result, outcome, found,
                   atCall, calls, copies, wrote, generated, builds, prev, extSteps>>

Propagate ==
    /\ pc = "raised"
    /\ pc' = "aborted"
    /\ UNCHANGED <<fs, privileged, defined, html_static_path, result, outcome, found,
                   atCall, calls, copies, wrote, generated, builds, prev, extSteps>>

\* lines 19-121: the declarative settings; line 36 is html_static_path
DefineSettings ==
    /\ pc = "line19"
    /\ defined' = defined \cup Settings
    /\ html_static_path' = <<static_path>>
    /\ pc' = "loaded"
    /\ UNCHANGED <<fs, privileged, result, outcome, found, atCall,
                   calls, copies, wrote, generated, builds, prev, extSteps>>

\* The documentation generator works with the loaded configuration.
Generate ==
    /\ pc = "loaded"
    /\ generated' = TRUE
    /\ pc' = "built"
    /\ UNCHANGED <<fs, privileged, defined, html_static_path, result, outcome, found,
                   atCall, calls, copies, wrote, builds, prev, extSteps>>

\* The next build is a new process that loads conf.py from line 1.
NewBuild ==
    /\ pc \in {"built", "aborted"}
    /\ builds < MaxBuilds
    /\ builds' = builds + 1
    /\ prev' = [outcome |-> outcome, result |-> result, dst |-> fs.dst]
    /\ pc' = "line14"
    /\ defined' = {}
    /\ html_static_path' = <<>>
    /\ result' = <<>>
    /\ outcome' = "none"
    /\ found' = "none"
    /\ calls' = 0
    /\ copies' = 0
    /\ wrote' = FALSE
    /\ generated' = FALSE
    /\ UNCHANGED <<fs, privileged, atCall, extSteps>>

\* The external producer of the artifact writes K-matrix.html ...
ExtCreate ==
    /\ extSteps < MaxExt
    /\ ~exists(fs.src)
    /\ \E c \in Contents, m \in Modes : fs' = [fs EXCEPT !.src = File(c, m)]
    /\ extSteps' = extSteps + 1
    /\ UNCHANGED <<privileged, pc, defined, html_static_path, result, outcome, found,
                   atCall, calls, copies, wrote, generated, builds, prev>>

\* ... or removes it.
ExtDelete ==
    /\ extSteps < MaxExt
    /\ exists(fs.src)
    /\ fs' = [fs EXCEPT !.src = Absent]
    /\ extSteps' = extSteps + 1
    /\ UNCHANGED <<privileged, pc, defined, html_static_path, result, outcome, found,
                   atCall, calls, copies, wrote, generated, builds, prev>>

Next ==
    \/ DefineConstants
    \/ CallPublisher
    \/ CheckExists
    \/ CopyStep
    \/ ReturnPath
    \/ ReturnEmpty
    \/ Propagate
    \/ DefineSettings
    \/ Generate
    \/ NewBuild

NextEnv ==
    \/ Next
    \/ ExtCreate
    \/ ExtDelete

\* Builds on a filesystem nobody else touches.
Spec == Init /\ [][Next]_vars

\* Builds while the external producer creates and deletes the artifact.
SpecEnv == Init /\ [][NextEnv]_vars


\* ---------------------------------------------------------------- claims

IsFile(e) == e.kind = "file"
Invoked == calls = 1
Ended == outcome \in {"returned", "raised"}
\* an existing destination file can be opened for writing by the build user
DstOverwritable(f) == IsFile(f.dst) => (f.dst.mode = "rw" \/ privileged)

\* C1: when K-matrix.html is absent at the call, the invocation never reaches
\* the copy, never fails, leaves the whole filesystem as it was (whether or
\* not _static exists) and what it returns is the empty sequence.
C1_AbsentNoWrite ==
    (Invoked /\ ~IsFile(atCall.src)) =>
        /\ fs = atCall
        /\ copies = 0
        /\ pc \notin {"line9", "line10", "raised", "aborted"}
        /\ outcome = "returned" => result = <<>>

C1_Witness ==
    /\ Invoked /\ ~IsFile(atCall.src) /\ atCall.dir = "missing"
    /\ outcome = "returned" /\ result = <<>>

\* C2 as stated: whenever K-matrix.html is present and the directory _static
\* exists and is writable, the invocation returns exactly the destination
\* path and the destination file then holds the source's contents, whatever
\* destination file existed before.
C2_Original ==
    (Invoked /\ Ended /\ IsFile(atCall.src) /\ atCall.dir = "writable") =>
        /\ outcome = "returned"
        /\ result = <<DestPath>>
        /\ IsFile(fs.dst) /\ fs.dst.content = fs.src.content

\* The part of C2 the code does satisfy: the same, provided a destination
\* file that already exists can be overwritten by the build user (it is not
\* read-only, or the build is privileged); the invocation then never fails.
C2_CopyWhenOverwritable ==
    (Invoked /\ IsFile(atCall.src) /\ atCall.dir = "writable" /\ DstOverwritable(atCall)) =>
        /\ pc \notin {"raised", "aborted", "line11"}
        /\ Ended =>
              /\ outcome = "returned"
              /\ result = <<DestPath>>
              /\ Len(result) = 1
              /\ IsFile(fs.dst) /\ fs.dst.content = fs.src.content

C2_Witness ==
    /\ Invoked /\ outcome = "returned" /\ result = <<DestPath>>
    /\ atCall.dir = "writable"
    /\ IsFile(atCall.dst) /\ atCall.dst.content # atCall.src.content
    /\ fs.dst.content = fs.src.content

\* C3 as stated: with K-matrix.html present and _static writable, an
\* invocation that follows one that returned ends the same way, with the
\* same result sequence, and leaves the destination file as the first did.
C3_Idempotent ==
    (builds >= 2 /\ Invoked /\ Ended /\ prev.outcome = "returned"
        /\ IsFile(fs.src) /\ fs.dir = "writable") =>
        /\ outcome = prev.outcome
        /\ result = prev.result
        /\ fs.dst = prev.dst

\* C4 as stated: whenever _static does not exist, the invocation ends in an
\* error and creates neither the directory nor the destination file.
C4_Original ==
    (Invoked /\ Ended /\ atCall.dir = "missing") =>
        /\ outcome = "raised"
        /\ fs.dir = "missing" /\ ~IsFile(fs.dst)

\* C4 as amended: when _static does not exist and K-matrix.html is present,
\* the invocation never returns (neither [] nor the destination path), ends
\* in an error, and creates neither the directory nor the destination file.
C4_MissingDirFails ==
    (Invoked /\ atCall.dir = "missing" /\ IsFile(atCall.src)) =>
        /\ pc \in {"line7", "line9", "raised", "aborted"}
        /\ outcome # "returned"
        /\ Ended => outcome = "raised"
        /\ fs = atCall

C4_Witness ==
    /\ Invoked /\ atCall.dir = "missing" /\ IsFile(atCall.src)
    /\ pc = "aborted" /\ outcome = "raised"

\* C5 as stated: once the configuration is loaded, the list of static paths
\* contains "_static/K-matrix.html" exactly when the artifact was present.
InStaticPaths(p) == \E i \in DOMAIN html_static_path : html_static_path[i] = p

C5_ResultRecorded ==
    pc \in {"loaded", "built"} => (InStaticPaths(DestPath) <=> IsFile(atCall.src))

\* C6: no step of any build changes, deletes or creates K-matrix.html, the
\* directory _static or any other file; the destination file changes only in
\* the copy step of an invocation that found the source present.
C6_Frame ==
    [][ /\ fs'.src = fs.src
        /\ fs'.dir = fs.dir
        /\ fs'.favicon = fs.favicon
        /\ fs'.dst # fs.dst => (pc = "line9" /\ found = "present" /\ IsFile(fs.src)) ]_vars

C6_Witness ==
    /\ wrote /\ fs.dst # atCall.dst
    /\ fs.src = atCall.src /\ IsFile(fs.favicon) /\ fs.favicon = atCall.favicon

\* C7: once the publisher has failed, the build only aborts: no setting that
\* follows the call is ever defined, generation never starts, and shutil.copy
\* was called once and is not called again.
C7_FailFast ==
    outcome = "raised" =>
        /\ pc \in {"raised", "aborted"}
        /\ defined \cap Settings = {}
        /\ html_static_path = <<>>
        /\ ~generated
        /\ copies = 1

C7_Witness ==
    /\ pc = "aborted" /\ outcome = "raised" /\ copies = 1
    /\ defined = Constants

\* C8: an invocation fails only in the copy step, after the existence check
\* answered "present"; the check itself never fails, and an invocation whose
\* check answered "absent" never copies, never fails and returns [].
C8_OnlyCopyFails ==
    /\ outcome = "raised" => (found = "present" /\ copies = 1)
    /\ found = "none" => (outcome = "none" /\ pc \notin {"raised", "aborted"})
    /\ found = "absent" =>
          /\ pc \notin {"line9", "line10", "raised", "aborted"}
          /\ copies = 0
          /\ outcome # "raised"
          /\ outcome = "returned" => result = <<>>

C8_Witness ==
    /\ pc = "aborted" /\ found = "present" /\ IsFile(fs.src) /\ extSteps > 0

\* C9: a build invokes the publisher at most once, exactly once by the time
\* it ends, and the invocation has returned or failed before any setting is
\* defined, the configuration is loaded or generation starts.
C9_OnceBeforeSettings ==
    /\ calls <= 1
    /\ (defined \cap Settings # {} \/ generated \/ pc \in {"line19", "loaded", "built"}) =>
          (calls = 1 /\ Ended)
    /\ pc \in {"built", "aborted"} => calls = 1
    /\ pc \in {"line14", "line17"} => (calls = 0 /\ defined \cap Settings = {})

C9_Witness ==
    /\ builds = 2 /\ pc = "built" /\ calls = 1 /\ generated
    /\ Settings \subseteq defined

\* C10: while the producer creates and deletes the artifact, a returned
\* destination path implies a completed write of the destination file in the
\* same invocation; a copy step that finds the artifact gone raises, writes
\* nothing, and a failed invocation never returns.
C10_CheckThenAct ==
    /\ [](result = <<DestPath>> => (wrote /\ IsFile(fs.dst) /\ found = "present"))
    /\ [][(pc = "line9" /\ ~IsFile(fs.src) /\ pc' # pc) =>
              (pc' = "raised" /\ fs' = fs /\ result' = <<>>)]_vars
    /\ [][outcome = "raised" => (outcome' = "raised" /\ result' = <<>>) \/ pc' = "line14"]_vars

C10_Witness ==
    /\ pc = "aborted" /\ found = "present" /\ ~IsFile(fs.src)
    /\ atCall.dir = "writable" /\ ~IsFile(atCall.dst) /\ ~IsFile(fs.dst)

====
